---- MODULE Spec2Model ----
(***************************************************************************)
(* A model of the multi-provider AI request adapter of german-study-app    *)
(* (services/aiService.ts): sendToAI with its helpers formatRequestBody,   *)
(* imageToBase64 and parseResponse, and the catch block that maps errors   *)
(* to alerts.  JavaScript values are modelled as tagged records so that    *)
(* property access on undefined (a TypeError), optional chaining, the ||   *)
(* operator and truthiness behave as they do in the code.                  *)
(***************************************************************************)
EXTENDS Integers, Sequences, FiniteSets, TLC

(***************************************************************************)
(* JavaScript values                                                       *)
(***************************************************************************)
Undef == [t |-> "undefined"]
Null == [t |-> "null"]
JStr(s) == [t |-> "string", s |-> s]
JNum(n) == [t |-> "number", n |-> n]
JObj(f) == [t |-> "object", f |-> f]
JArr(a) == [t |-> "array", a |-> a]
\* The completion of an expression that threw a TypeError.
Throw == [t |-> "throw"]

\* ToBoolean, as used by !apiKey, if (imageUri), a || b.
Truthy(v) ==
  CASE v.t = "undefined" -> FALSE
    [] v.t = "null" -> FALSE
    [] v.t = "throw" -> FALSE
    [] v.t = "string" -> v.s # ""
    [] v.t = "number" -> v.n # 0
    [] OTHER -> TRUE

\* a || b
Or(a, b) == IF Truthy(a) THEN a ELSE b

\* v.k : reading a property of undefined or null throws a TypeError; a
\* property an object does not have, or any property of a string, a number
\* or an array other than an index, is undefined.
Get(v, k) ==
  CASE v.t \in {"undefined", "null", "throw"} -> Throw
    [] v.t = "object" -> IF k \in DOMAIN v.f THEN v.f[k] ELSE Undef
    [] OTHER -> Undef

\* v[i] for a zero-based index i
At(v, i) ==
  CASE v.t \in {"undefined", "null", "throw"} -> Throw
    [] v.t = "array" -> IF (i + 1) \in DOMAIN v.a THEN v.a[i + 1] ELSE Undef
    [] OTHER -> Undef

\* v?.k
OptGet(v, k) == IF v.t \in {"undefined", "null"} THEN Undef ELSE Get(v, k)

Digit(d) ==
  CASE d = 0 -> "0" [] d = 1 -> "1" [] d = 2 -> "2" [] d = 3 -> "3"
    [] d = 4 -> "4" [] d = 5 -> "5" [] d = 6 -> "6" [] d = 7 -> "7"
    [] d = 8 -> "8" [] d = 9 -> "9"

\* Number to decimal string, as a template literal `${n}` does.
RECURSIVE NumToStr(_)
NumToStr(n) == IF n < 10 THEN Digit(n) ELSE NumToStr(n \div 10) \o Digit(n % 10)

(***************************************************************************)
(* Configuration                                                           *)
(***************************************************************************)
AIProvider == {"openai", "anthropic", "perplexity"}

API_CONFIG ==
  [openai |-> [apiUrl |-> "https://api.openai.com/v1/chat/completions",
               model |-> "gpt-4-vision-preview"],
   anthropic |-> [apiUrl |-> "https://api.anthropic.com/v1/messages",
                  model |-> "claude-3-opus-20240229"],
   perplexity |-> [apiUrl |-> "https://api.perplexity.ai/chat/completions",
                   model |-> "sonar"]]

\* Mutant: every provider gets the bearer header.
headersBearerForAll(provider, apiKey) ==
  JObj(("Content-Type" :> JStr("application/json"))
       @@ ("Authorization" :> JStr("Bearer " \o apiKey.s)))

\* API_CONFIG[provider].headers(apiKey); apiKey is a non-empty string here.
headers(provider, apiKey) ==
  IF provider = "anthropic"
  THEN JObj(("Content-Type" :> JStr("application/json"))
            @@ ("x-api-key" :> apiKey)
            @@ ("anthropic-version" :> JStr("2023-06-01")))
  ELSE JObj(("Content-Type" :> JStr("application/json"))
            @@ ("Authorization" :> JStr("Bearer " \o apiKey.s)))

max_tokens == 1000

\* The preamble of the source is Turkish text; its letters outside ASCII are
\* written here with their ASCII base letters.
defaultPrompt ==
  "Bu resmi analiz et ve acikla. Bu muhtemelen bir Almanca calisma veya dersidir. Odevim icin yardimci ol. Bana ogretmen gibi yaklas hatalarim varsa soyle. Sen benim Almanca ogretmenimsin. Sorularimi sana soracagim. Cevabin lutfen Turkce olsun. Almanca ifadeleri italic ver. Resmi ekte gonderiyorum: "

(***************************************************************************)
(* formatRequestBody: the body construction after the image, if any, has   *)
(* been converted.  imageData is the value imageToBase64 returned, a       *)
(* record [base64, scaledUri]; it is read only when imageUri is truthy.    *)
(***************************************************************************)
\* The text handleSend of the chat screen passes for an empty input.
FallbackPrompt == "Please analyze this image and explain it in detail."

\* Mutant: the body builder itself puts the fallback text in the place of an
\* empty prompt.
TextPartWithFallback(prompt) ==
  JObj([type |-> JStr("text"),
        text |-> JStr(defaultPrompt \o (IF prompt.s = "" THEN FallbackPrompt ELSE prompt.s))])

\* Mutant: the text part is the prompt alone.
TextPartNoPreamble(prompt) ==
  JObj([type |-> JStr("text"), text |-> prompt])

TextPart(prompt) ==
  JObj([type |-> JStr("text"), text |-> JStr(defaultPrompt \o prompt.s)])

ImageUrlPart(base64Image) ==
  JObj([type |-> JStr("image_url"),
        image_url |-> JObj([url |-> JStr("data:image/jpeg;base64," \o base64Image)])])

\* Mutant: the image block declares the media type of the source image.
ImageBlockPartPng(base64Image) ==
  JObj([type |-> JStr("image"),
        source |-> JObj([type |-> JStr("base64"),
                         media_type |-> JStr("image/png"),
                         data |-> JStr(base64Image)])])

ImageBlockPart(base64Image) ==
  JObj([type |-> JStr("image"),
        source |-> JObj([type |-> JStr("base64"),
                         media_type |-> JStr("image/jpeg"),
                         data |-> JStr(base64Image)])])

UserMessage(content) == JObj([role |-> JStr("user"), content |-> content])

ImageBody(provider, prompt, base64Image) ==
  CASE provider = "openai" ->
         JObj([model |-> JStr(API_CONFIG[provider].model),
               messages |-> JArr(<<UserMessage(JArr(<<TextPart(prompt),
                                                      ImageUrlPart(base64Image)>>))>>),
               max_tokens |-> JNum(max_tokens)])
    [] provider = "anthropic" ->
         JObj([model |-> JStr(API_CONFIG[provider].model),
               messages |-> JArr(<<UserMessage(JArr(<<TextPart(prompt),
                                                      ImageBlockPart(base64Image)>>))>>),
               max_tokens |-> JNum(max_tokens)])
    [] provider = "perplexity" ->
         JObj([model |-> JStr(API_CONFIG[provider].model),
               messages |-> JArr(<<UserMessage(JArr(<<TextPart(prompt),
                                                      ImageUrlPart(base64Image)>>))>>)])

\* Mutant: the text-only body also gets the preamble of the image bodies.
TextBodyWithPreamble(provider, prompt) ==
  CASE provider = "perplexity" ->
         JObj([model |-> JStr(API_CONFIG[provider].model),
               messages |-> JArr(<<UserMessage(JStr(defaultPrompt \o prompt.s))>>)])
    [] OTHER ->
         JObj([model |-> JStr(API_CONFIG[provider].model),
               messages |-> JArr(<<UserMessage(JStr(defaultPrompt \o prompt.s))>>),
               max_tokens |-> JNum(max_tokens)])

TextBody(provider, prompt) ==
  CASE provider = "openai" ->
         JObj([model |-> JStr(API_CONFIG[provider].model),
               messages |-> JArr(<<UserMessage(prompt)>>),
               max_tokens |-> JNum(max_tokens)])
    [] provider = "anthropic" ->
         JObj([model |-> JStr(API_CONFIG[provider].model),
               messages |-> JArr(<<UserMessage(prompt)>>),
               max_tokens |-> JNum(max_tokens)])
    [] provider = "perplexity" ->
         JObj([model |-> JStr(API_CONFIG[provider].model),
               messages |-> JArr(<<UserMessage(prompt)>>)])

\* Mutant: the uri handed back is the uri of the original image.
formatRequestBodyOriginalUri(provider, prompt, imageUri, imageData) ==
  IF Truthy(imageUri)
  THEN [body |-> ImageBody(provider, prompt, imageData.base64), scaledUri |-> imageUri]
  ELSE [body |-> TextBody(provider, prompt), scaledUri |-> Null]

formatRequestBody(provider, prompt, imageUri, imageData) ==
  IF Truthy(imageUri)
  THEN [body |-> ImageBody(provider, prompt, imageData.base64),
        scaledUri |-> JStr(imageData.scaledUri)]
  ELSE [body |-> TextBody(provider, prompt), scaledUri |-> Null]

(***************************************************************************)
(* parseResponse: the reply text at the provider's path.  A path that      *)
(* crosses undefined or null throws (Throw); a path whose last key alone   *)
(* is missing evaluates to undefined and is returned.                      *)
(***************************************************************************)
\* Mutant: every provider is read at the path of openai.
parseResponseOpenAIPath(provider, data) ==
  Get(Get(At(Get(data, "choices"), 0), "message"), "content")

parseResponse(provider, data) ==
  CASE provider = "openai" ->
         Get(Get(At(Get(data, "choices"), 0), "message"), "content")
    [] provider = "anthropic" ->
         Get(At(Get(data, "content"), 0), "text")
    [] provider = "perplexity" ->
         Get(Get(At(Get(data, "choices"), 0), "message"), "content")
    [] OTHER -> JStr("No response from AI")

(***************************************************************************)
(* Errors.  An error is a record [message, response, request]: response is *)
(* the axios response {status, data} when the server answered, request is  *)
(* set when a request was made, and both are undefined for any other Error.*)
(***************************************************************************)
PlainError(message) == [message |-> message, response |-> Undef, request |-> Undef]

\* axios resolves a response whose status is 2xx and rejects any other.
validateStatus(status) == status >= 200 /\ status < 300

\* The error axios.post rejects with, for each way the call can fail.
AxiosError(reply) ==
  CASE reply.kind = "response" ->
         [message |-> "Request failed with status code " \o NumToStr(reply.status),
          response |-> JObj([status |-> JNum(reply.status), data |-> reply.data]),
          request |-> JObj([sent |-> JStr("yes")])]
    [] reply.kind = "noResponse" ->
         [message |-> "Network Error",
          response |-> Undef,
          request |-> JObj([sent |-> JStr("yes")])]
    [] reply.kind = "setup" ->
         PlainError("Request setup failed")

\* The alert the catch block of sendToAI shows for an error.
CatchAlert(provider, error) ==
  IF Truthy(error.response)
  THEN LET data == Get(error.response, "data")
           status == Get(error.response, "status")
           errorMessage ==
             Or(OptGet(OptGet(data, "error"), "message"),
                Or(OptGet(data, "error"), JStr("Error: " \o NumToStr(status.n))))
       IN [title |-> provider \o " API Error", message |-> errorMessage]
  ELSE IF Truthy(error.request)
  THEN [title |-> "Network Error",
        message |-> JStr("No response from server. Please check your internet connection.")]
  ELSE [title |-> "Error", message |-> JStr(error.message)]

\* Mutant: the catch block throws a new Error with the message alone.
RethrowMessageOnly(error) == PlainError(error.message)

\* throw error, the last statement of the catch block.
Rethrow(error) == error

(***************************************************************************)
(* Inputs and environment                                                  *)
(***************************************************************************)
\* The invocations of sendToAI that may be in flight at once.
Calls == {"A", "B"}

\* How many invocations a behaviour starts in all.
MaxInvocations == 2

ApiKeyInputs == {Undef, JStr(""), JStr("sk-test")}
PromptInputs == {JStr(""), JStr("Was bedeutet 'Haus'?")}
ImageInputs == {Null, JStr("file:///photos/page.heic")}

\* What ImageManipulator and FileSystem may hand back for a readable image.
ManipResults ==
  {[base64 |-> "QUJD", scaledUri |-> "file:///cache/ImageManipulator/a.jpg"],
   [base64 |-> "REVG", scaledUri |-> "file:///cache/ImageManipulator/b.jpg"]}

\* The error ImageManipulator or FileSystem rejects with.
ImageError == PlainError("Could not load the image")

ReplyTexts == {"'Haus' means 'house'."}

OpenAIPayload(text) ==
  JObj([choices |-> JArr(<<JObj([message |-> JObj([content |-> JStr(text)])])>>)])

AnthropicPayload(text) ==
  JObj([content |-> JArr(<<JObj([text |-> JStr(text)])>>)])

\* 2xx bodies that lack a key of the reply path, at each level.
MalformedPayloads ==
  {JObj(<<>>),
   JObj([choices |-> JArr(<<>>)]),
   JObj([choices |-> JArr(<<JObj(<<>>)>>)]),
   JObj([choices |-> JArr(<<JObj([message |-> JObj(<<>>)])>>)]),
   JObj([content |-> JArr(<<JObj(<<>>)>>)])}

HttpReply(status, data) == [kind |-> "response", status |-> status, data |-> data]
NoResponse == [kind |-> "noResponse", status |-> 0, data |-> Undef]
SetupFailure == [kind |-> "setup", status |-> 0, data |-> Undef]

\* Every way one axios.post call can end.
Replies ==
  {HttpReply(200, OpenAIPayload(t)) : t \in ReplyTexts}
    \cup {HttpReply(200, AnthropicPayload(t)) : t \in ReplyTexts}
    \cup {HttpReply(200, d) : d \in MalformedPayloads}
    \cup {HttpReply(429, JObj([error |-> JObj([message |-> JStr("rate limited")])])),
          HttpReply(401, JObj([error |-> JStr("Unauthorized")])),
          HttpReply(500, JStr("")),
          NoResponse,
          SetupFailure}

(***************************************************************************)
(* State                                                                   *)
(***************************************************************************)
VARIABLES
  pc,          \* where each invocation of sendToAI stands
  args,        \* its arguments: provider, apiKey, prompt, imageUri
  frame,       \* its locals requestBody and scaledUri
  steps,       \* the steps it has entered, in order
  transformed, \* the image uris it passed to imageToBase64
  manip,       \* how its imageToBase64 call ended
  requests,    \* the axios.post calls it made
  reply,       \* how its axios.post call ended
  result,      \* the AIResponse it returned, if any
  thrown,      \* the error it threw, if any
  alerts,      \* the alerts it showed
  started,     \* invocations started so far
  chat,        \* the chat screen's state hooks: messages, inputText, imageUri,
               \* isLoading, provider, apiKey
  sends,       \* where each handleSend stands, and its locals
  loader,      \* where loadSettings stands
  lookups,     \* the providers whose changeProvider key lookup is pending
  dialog,      \* the alert the chat screen shows, if any
  route,       \* the screen on top of the navigation stack
  storage,     \* AsyncStorage: history, api keys, settings
  uuids,       \* ids handed out by uuidv4 so far
  saves        \* the saveApiKey and saveHistoryItem calls made outside handleSend

adapterVars == <<pc, args, frame, steps, transformed, manip, requests, reply,
                 result, thrown, alerts, started>>

chatVars == <<chat, sends, loader, lookups, dialog, route, storage, uuids, saves>>

vars == <<pc, args, frame, steps, transformed, manip, requests, reply, result,
          thrown, alerts, started, chat, sends, loader, lookups, dialog, route,
          storage, uuids, saves>>

NoArgs == [provider |-> "anthropic", apiKey |-> Undef, prompt |-> JStr(""), imageUri |-> Null]
NoFrame == [requestBody |-> Undef, scaledUri |-> Null]
NoImageData == [base64 |-> "", scaledUri |-> ""]

\* The stored api keys: a key for two of the three providers.
StoredKeys ==
  JObj(("anthropic" :> JStr("sk-ant-1")) @@ ("openai" :> JStr("sk-oai-1")))

\* The route parameter of the chat screen: opened with or without an image.
RouteImages == {Undef, JStr("file:///photos/page.heic")}

NoMessage ==
  [id |-> Undef, text |-> Undef, isUser |-> FALSE, imageUri |-> Undef, timestamp |-> Undef]
NoItem == JObj(<<>>)
NoSend ==
  [pc |-> "idle", userMessage |-> NoMessage, provider |-> "anthropic",
   response |-> Undef, item |-> NoItem, history |-> <<>>]

NoSave ==
  [op |-> "none", pc |-> "idle", awaited |-> FALSE, readOk |-> TRUE,
   provider |-> "anthropic", key |-> JStr(""), keys |-> JObj(<<>>),
   item |-> NoItem, history |-> <<>>]

\* The chat screen as its useState calls construct it.
ChatConstructed(routeImage) ==
  /\ chat = [messages |-> <<>>, inputText |-> JStr(""),
             imageUri |-> Or(routeImage, Null), isLoading |-> FALSE,
             provider |-> "anthropic", apiKey |-> Undef]
  /\ sends = [c \in Calls |-> NoSend]
  /\ loader = [pc |-> "unmounted", defaultProvider |-> "anthropic"]
  /\ lookups = {}
  /\ dialog = Null
  /\ route = "Chat"
  /\ uuids = 0

\* AsyncStorage holding a history and api keys, and no call to it under way.
Stored(history, apiKeys) ==
  /\ storage = [history |-> history, apiKeys |-> apiKeys, settings |-> Null]
  /\ saves = [c \in Calls |-> NoSave]

AdapterInit ==
  /\ pc = [c \in Calls |-> "idle"]
  /\ args = [c \in Calls |-> NoArgs]
  /\ frame = [c \in Calls |-> NoFrame]
  /\ steps = [c \in Calls |-> <<>>]
  /\ transformed = [c \in Calls |-> <<>>]
  /\ manip = [c \in Calls |-> <<>>]
  /\ requests = [c \in Calls |-> <<>>]
  /\ reply = [c \in Calls |-> <<>>]
  /\ result = [c \in Calls |-> <<>>]
  /\ thrown = [c \in Calls |-> <<>>]
  /\ alerts = [c \in Calls |-> <<>>]
  /\ started = 0

Init == AdapterInit /\ ChatConstructed(Undef) /\ Stored(<<>>, StoredKeys)

\* Mutant: the check written as apiKey === undefined, which lets "" pass.
MissingKeyUndefinedOnly(apiKey) == apiKey = Undef

\* if (!apiKey)
MissingKey(apiKey) == ~Truthy(apiKey)

\* Mutant: a catch block that sends the request again once after a failed
\* axios.post instead of rethrowing.
CatchAndRetry(c, error) ==
  IF Len(requests[c]) = 1
  THEN /\ pc' = [pc EXCEPT ![c] = "awaitBody"]
       /\ UNCHANGED <<alerts, thrown>>
  ELSE /\ alerts' = [alerts EXCEPT ![c] = Append(@, CatchAlert(args[c].provider, error))]
       /\ thrown' = [thrown EXCEPT ![c] = <<error>>]
       /\ pc' = [pc EXCEPT ![c] = "thrown"]

\* The catch block of sendToAI: show the alert for the error, then rethrow.
Catch(c, error) ==
  /\ alerts' = [alerts EXCEPT ![c] = Append(@, CatchAlert(args[c].provider, error))]
  /\ thrown' = [thrown EXCEPT ![c] = <<Rethrow(error)>>]
  /\ pc' = [pc EXCEPT ![c] = "thrown"]

\* sendToAI(provider, apiKey, prompt, imageUri) up to its first suspension:
\* the credential check, then formatRequestBody up to its await of
\* imageToBase64, or to its return when there is no image.
sendToAI(c, provider, apiKey, prompt, imageUri) ==
  /\ pc[c] \in {"idle", "returned", "thrown"}
  /\ started < MaxInvocations
  /\ started' = started + 1
  /\ args' = [args EXCEPT ![c] = [provider |-> provider, apiKey |-> apiKey,
                                  prompt |-> prompt, imageUri |-> imageUri]]
  /\ manip' = [manip EXCEPT ![c] = <<>>]
  /\ requests' = [requests EXCEPT ![c] = <<>>]
  /\ reply' = [reply EXCEPT ![c] = <<>>]
  /\ result' = [result EXCEPT ![c] = <<>>]
  /\ IF MissingKey(apiKey)
     THEN /\ steps' = [steps EXCEPT ![c] = <<"validate">>]
          /\ transformed' = [transformed EXCEPT ![c] = <<>>]
          /\ frame' = [frame EXCEPT ![c] = NoFrame]
          /\ alerts' = [alerts EXCEPT ![c] =
               <<CatchAlert(provider, PlainError("API key for " \o provider \o " is not set"))>>]
          /\ thrown' = [thrown EXCEPT ![c] =
               <<Rethrow(PlainError("API key for " \o provider \o " is not set"))>>]
          /\ pc' = [pc EXCEPT ![c] = "thrown"]
     ELSE /\ alerts' = [alerts EXCEPT ![c] = <<>>]
          /\ thrown' = [thrown EXCEPT ![c] = <<>>]
          /\ IF Truthy(imageUri)
             THEN /\ steps' = [steps EXCEPT ![c] = <<"validate", "transform">>]
                  /\ transformed' = [transformed EXCEPT ![c] = <<imageUri>>]
                  /\ frame' = [frame EXCEPT ![c] = NoFrame]
                  /\ pc' = [pc EXCEPT ![c] = "awaitImage"]
             ELSE /\ steps' = [steps EXCEPT ![c] = <<"validate", "body">>]
                  /\ transformed' = [transformed EXCEPT ![c] = <<>>]
                  /\ frame' = [frame EXCEPT ![c] =
                       LET f == formatRequestBody(provider, prompt, imageUri, NoImageData)
                       IN [requestBody |-> f.body, scaledUri |-> f.scaledUri]]
                  /\ pc' = [pc EXCEPT ![c] = "awaitBody"]

\* Mutant: the locals of formatRequestBody are module-level variables that
\* all invocations share.
ImageResolvedShared(c, imageData) ==
  /\ pc[c] = "awaitImage"
  /\ frame' = [d \in Calls |->
       LET f == formatRequestBody(args[c].provider, args[c].prompt, args[c].imageUri, imageData)
       IN [requestBody |-> f.body, scaledUri |-> f.scaledUri]]
  /\ manip' = [manip EXCEPT ![c] = <<[ok |-> TRUE, data |-> imageData]>>]
  /\ steps' = [steps EXCEPT ![c] = Append(@, "body")]
  /\ pc' = [pc EXCEPT ![c] = "awaitBody"]
  /\ UNCHANGED <<args, transformed, requests, reply, result, thrown, alerts, started>>

\* imageToBase64 resolves: formatRequestBody builds the body with the
\* encoding and returns it with the uri of the resized copy.
ImageResolved(c, imageData) ==
  /\ pc[c] = "awaitImage"
  /\ frame' = [frame EXCEPT ![c] =
       LET f == formatRequestBody(args[c].provider, args[c].prompt, args[c].imageUri, imageData)
       IN [requestBody |-> f.body, scaledUri |-> f.scaledUri]]
  /\ manip' = [manip EXCEPT ![c] = <<[ok |-> TRUE, data |-> imageData]>>]
  /\ steps' = [steps EXCEPT ![c] = Append(@, "body")]
  /\ pc' = [pc EXCEPT ![c] = "awaitBody"]
  /\ UNCHANGED <<args, transformed, requests, reply, result, thrown, alerts, started>>

\* Mutant: imageToBase64 swallows the failure and formatRequestBody goes on
\* with a text-only body.
ImageRejectedSwallowed(c) ==
  /\ pc[c] = "awaitImage"
  /\ manip' = [manip EXCEPT ![c] = <<[ok |-> FALSE, data |-> NoImageData]>>]
  /\ frame' = [frame EXCEPT ![c] =
       [requestBody |-> TextBody(args[c].provider, args[c].prompt), scaledUri |-> Null]]
  /\ steps' = [steps EXCEPT ![c] = Append(@, "body")]
  /\ pc' = [pc EXCEPT ![c] = "awaitBody"]
  /\ UNCHANGED <<args, transformed, requests, reply, result, thrown, alerts, started>>

\* imageToBase64 rejects: it rethrows, formatRequestBody rejects, and the
\* catch block of sendToAI runs.
ImageRejected(c) ==
  /\ pc[c] = "awaitImage"
  /\ manip' = [manip EXCEPT ![c] = <<[ok |-> FALSE, data |-> NoImageData]>>]
  /\ Catch(c, ImageError)
  /\ UNCHANGED <<args, frame, steps, transformed, requests, reply, result, started>>

\* Mutant: formatRequestBody is not awaited, so axios.post may be called
\* while the image is still being converted.
PostWithoutAwait(c) ==
  /\ pc[c] \in {"awaitImage", "awaitBody"}
  /\ requests' = [requests EXCEPT ![c] =
       Append(@, [url |-> API_CONFIG[args[c].provider].apiUrl,
                  data |-> frame[c].requestBody,
                  headers |-> headers(args[c].provider, args[c].apiKey)])]
  /\ steps' = [steps EXCEPT ![c] = Append(@, "post")]
  /\ pc' = [pc EXCEPT ![c] = "awaitPost"]
  /\ UNCHANGED <<args, frame, transformed, manip, reply, result, thrown, alerts, started>>

\* sendToAI resumes with the body and calls axios.post.
Post(c) ==
  /\ pc[c] = "awaitBody"
  /\ requests' = [requests EXCEPT ![c] =
       Append(@, [url |-> API_CONFIG[args[c].provider].apiUrl,
                  data |-> frame[c].requestBody,
                  headers |-> headers(args[c].provider, args[c].apiKey)])]
  /\ steps' = [steps EXCEPT ![c] = Append(@, "post")]
  /\ pc' = [pc EXCEPT ![c] = "awaitPost"]
  /\ UNCHANGED <<args, frame, transformed, manip, reply, result, thrown, alerts, started>>

\* axios.post settles with r.  A 2xx response is parsed and the AIResponse
\* returned; a TypeError of parseResponse, and every rejection of
\* axios.post, goes to the catch block.
Respond(c, r) ==
  /\ pc[c] = "awaitPost"
  /\ reply' = [reply EXCEPT ![c] = <<r>>]
  /\ IF r.kind = "response" /\ validateStatus(r.status)
     THEN LET text == parseResponse(args[c].provider, r.data) IN
          /\ steps' = [steps EXCEPT ![c] = Append(@, "parse")]
          /\ IF text = Throw
             THEN /\ Catch(c, PlainError("Cannot read properties of undefined"))
                  /\ UNCHANGED result
             ELSE /\ result' = [result EXCEPT ![c] =
                       <<[text |-> text,
                          provider |-> args[c].provider,
                          scaledImageUri |-> Or(frame[c].scaledUri, Undef)]>>]
                  /\ pc' = [pc EXCEPT ![c] = "returned"]
                  /\ UNCHANGED <<thrown, alerts>>
     ELSE /\ Catch(c, AxiosError(r))
          /\ UNCHANGED <<steps, result>>
  /\ UNCHANGED <<args, frame, transformed, manip, requests, started>>

Next ==
  \/ \E c \in Calls, provider \in AIProvider, apiKey \in ApiKeyInputs,
        prompt \in PromptInputs, imageUri \in ImageInputs :
       sendToAI(c, provider, apiKey, prompt, imageUri) /\ UNCHANGED chatVars
  \/ \E c \in Calls, imageData \in ManipResults :
       ImageResolved(c, imageData) /\ UNCHANGED chatVars
  \/ \E c \in Calls : ImageRejected(c) /\ UNCHANGED chatVars
  \/ \E c \in Calls : Post(c) /\ UNCHANGED chatVars
  \/ \E c \in Calls, r \in Replies : Respond(c, r) /\ UNCHANGED chatVars

Spec == Init /\ [][Next]_vars

(***************************************************************************)
(* storageService.ts                                                       *)
(***************************************************************************)

\* JSON.parse(JSON.stringify(o)) of a flat object: a field whose value is
\* undefined is left out.
JSONRoundTrip(o) ==
  JObj([k \in {j \in DOMAIN o.f : o.f[j] # Undef} |-> o.f[k]])

\* getApiKey(provider): keys[provider] of the stored keys, {} when the read
\* fails.
getApiKey(provider, readOk) ==
  IF readOk THEN Get(storage.apiKeys, provider) ELSE Get(JObj(<<>>), provider)

DEFAULT_SETTINGS == [defaultProvider |-> "anthropic"]

\* getSettings(): the stored settings, DEFAULT_SETTINGS when there are none
\* or the read fails.
getSettings(readOk) ==
  IF readOk /\ storage.settings # Null THEN storage.settings ELSE DEFAULT_SETTINGS

\* getHistory(): the stored history, [] when the read fails.
getHistory(readOk) == IF readOk THEN storage.history ELSE <<>>

\* saveApiKey(provider, key) up to its await of getApiKeys.
saveApiKey(c, provider, key) ==
  /\ saves[c].pc \in {"idle", "resolved", "rejected"}
  /\ saves' = [saves EXCEPT ![c] =
       [NoSave EXCEPT !.op = "saveApiKey", !.pc = "awaitGetApiKeys",
                      !.provider = provider, !.key = key]]

\* saveApiKey: getApiKeys settled, with {} when the read failed;
\* keys[provider] = key, then saveApiKeys up to its await of setItem.
GetApiKeysResolved(c, readOk) ==
  /\ saves[c].pc = "awaitGetApiKeys"
  /\ LET keys == IF readOk THEN storage.apiKeys ELSE JObj(<<>>) IN
       saves' = [saves EXCEPT
         ![c].pc = "awaitSetApiKeys",
         ![c].readOk = readOk,
         ![c].keys = JObj((saves[c].provider :> saves[c].key) @@ keys.f)]
  /\ UNCHANGED <<chat, sends, loader, lookups, dialog, route, storage, uuids>>
  /\ UNCHANGED adapterVars

\* saveApiKeys: setItem stored the keys.
SetApiKeysResolved(c) ==
  /\ saves[c].pc = "awaitSetApiKeys"
  /\ storage' = [storage EXCEPT !.apiKeys = JSONRoundTrip(saves[c].keys)]
  /\ saves' = [saves EXCEPT ![c].pc = "resolved"]

\* saveApiKeys: setItem failed; the error is thrown on.
SetApiKeysRejected(c) ==
  /\ saves[c].pc = "awaitSetApiKeys"
  /\ saves' = [saves EXCEPT ![c].pc = "rejected"]
  /\ UNCHANGED storage

\* saveHistoryItem(item) up to its await of getHistory.
saveHistoryItem(c, item) ==
  /\ saves[c].pc \in {"idle", "resolved", "rejected"}
  /\ saves' = [saves EXCEPT ![c] =
       [NoSave EXCEPT !.op = "saveHistoryItem", !.pc = "awaitGetHistory",
                      !.item = item]]
  /\ UNCHANGED <<chat, sends, loader, lookups, dialog, route, storage, uuids>>
  /\ UNCHANGED adapterVars

\* saveHistoryItem: getHistory settled, with [] when the read failed; the
\* item is put in front, then the await of setItem.
HistoryRead(c, readOk) ==
  /\ saves[c].pc = "awaitGetHistory"
  /\ saves' = [saves EXCEPT
       ![c].pc = "awaitSetHistory",
       ![c].readOk = readOk,
       ![c].history = <<saves[c].item>> \o getHistory(readOk)]
  /\ UNCHANGED <<chat, sends, loader, lookups, dialog, route, storage, uuids>>
  /\ UNCHANGED adapterVars

\* saveHistoryItem: setItem stored the history.
HistoryStored(c) ==
  /\ saves[c].pc = "awaitSetHistory"
  /\ storage' = [storage EXCEPT !.history =
       [i \in DOMAIN saves[c].history |-> JSONRoundTrip(saves[c].history[i])]]
  /\ saves' = [saves EXCEPT ![c].pc = "resolved"]
  /\ UNCHANGED <<chat, sends, loader, lookups, dialog, route, uuids>>
  /\ UNCHANGED adapterVars

\* saveHistoryItem: setItem failed; the error is thrown on.
HistoryStoreRejected(c) ==
  /\ saves[c].pc = "awaitSetHistory"
  /\ saves' = [saves EXCEPT ![c].pc = "rejected"]
  /\ UNCHANGED <<chat, sends, loader, lookups, dialog, route, storage, uuids>>
  /\ UNCHANGED adapterVars

(***************************************************************************)
(* ChatScreen.tsx                                                          *)
(***************************************************************************)

IsSpace(ch) == ch \in {" ", "\t", "\n"}

RECURSIVE TrimStart(_)
TrimStart(s) ==
  IF Len(s) > 0 /\ IsSpace(Head(s)) THEN TrimStart(Tail(s)) ELSE s

RECURSIVE TrimEnd(_)
TrimEnd(s) ==
  IF Len(s) > 0 /\ IsSpace(SubSeq(s, Len(s), Len(s)))
  THEN TrimEnd(SubSeq(s, 1, Len(s) - 1))
  ELSE s

\* String.prototype.trim
trim(v) == JStr(TrimEnd(TrimStart(v.s)))

\* The length of the conversation up to which touches are followed.
MaxMessages == 2

\* The invocations of sendToAI in the order handleSend takes a free one.
CallOrder == <<"A", "B">>

\* What the user types, picks and is answered on the chat screen.
TextInputs == {JStr(""), JStr("  "), JStr("Was bedeutet 'Haus'?")}
PickedImages == {JStr("file:///photos/page.heic")}
ChatManipResults ==
  {[base64 |-> "QUJD", scaledUri |-> "file:///cache/ImageManipulator/a.jpg"]}
ChatReplies ==
  {HttpReply(200, OpenAIPayload("'Haus' means 'house'.")),
   HttpReply(200, AnthropicPayload("'Haus' means 'house'.")),
   HttpReply(429, JObj([error |-> JObj([message |-> JStr("rate limited")])]))}
\* The provider chips the user taps: one with a stored key and one without,
\* away from the default provider.
TappedChips == {"openai", "perplexity"}

Mounted == loader.pc # "unmounted"

\* The chat screen takes a touch: it is mounted and on top, under no alert.
\* Touches are followed while the conversation is shorter than MaxMessages.
Interactive ==
  /\ Mounted
  /\ route = "Chat"
  /\ dialog = Null
  /\ Len(chat.messages) < MaxMessages

\* addMessage(message), as the update of messages it queues.
addMessage(messages, message) == Append(messages, message)

\* uuidv4(): an id no earlier call returned.
uuidv4(n) == JStr("uuid-" \o NumToStr(n))

\* A message made at the n-th reading of uuidv4 and of the clock.
Message(n, text, isUser, imageUri) ==
  [id |-> uuidv4(n), text |-> text, isUser |-> isUser, imageUri |-> imageUri,
   timestamp |-> JNum(n)]

UploadText == JStr("I've uploaded an image for analysis.")
ErrorText == JStr("Sorry, there was an error processing your request. Please try again.")

\* The mount effect: loadSettings up to its await of getSettings, and the
\* upload message when the screen was opened with an image.
Mount ==
  /\ loader.pc = "unmounted"
  /\ loader' = [loader EXCEPT !.pc = "awaitGetSettings"]
  /\ IF Truthy(chat.imageUri)
     THEN /\ chat' = [chat EXCEPT !.messages =
                 addMessage(@, Message(uuids + 1, UploadText, TRUE, chat.imageUri))]
          /\ uuids' = uuids + 1
     ELSE UNCHANGED <<chat, uuids>>
  /\ UNCHANGED <<sends, lookups, dialog, route, storage>>
  /\ UNCHANGED adapterVars
  /\ UNCHANGED saves

\* loadSettings: getSettings settled; setProvider, then the await of getApiKey.
GetSettingsResolved(readOk) ==
  /\ loader.pc = "awaitGetSettings"
  /\ LET settings == getSettings(readOk) IN
       /\ chat' = [chat EXCEPT !.provider = settings.defaultProvider]
       /\ loader' = [pc |-> "awaitGetApiKey", defaultProvider |-> settings.defaultProvider]
  /\ UNCHANGED <<sends, lookups, dialog, route, storage, uuids>>
  /\ UNCHANGED adapterVars
  /\ UNCHANGED saves

\* loadSettings: getApiKey settled; setApiKey.
LoadedApiKey(readOk) ==
  /\ loader.pc = "awaitGetApiKey"
  /\ chat' = [chat EXCEPT !.apiKey = getApiKey(loader.defaultProvider, readOk)]
  /\ loader' = [loader EXCEPT !.pc = "done"]
  /\ UNCHANGED <<sends, lookups, dialog, route, storage, uuids>>
  /\ UNCHANGED adapterVars
  /\ UNCHANGED saves

\* onChangeText of the text field, which is never disabled.
setInputText(text) ==
  /\ Interactive
  /\ chat.inputText # text
  /\ chat' = [chat EXCEPT !.inputText = text]
  /\ UNCHANGED <<sends, loader, lookups, dialog, route, storage, uuids>>
  /\ UNCHANGED adapterVars
  /\ UNCHANGED saves

\* pickImage and takePhoto, granted and not cancelled.
pickImage(uri) ==
  /\ Interactive
  /\ chat.imageUri # uri
  /\ chat' = [chat EXCEPT !.imageUri = uri]
  /\ UNCHANGED <<sends, loader, lookups, dialog, route, storage, uuids>>
  /\ UNCHANGED adapterVars
  /\ UNCHANGED saves

\* removeImage, the button of the image preview.
removeImage ==
  /\ Interactive
  /\ Truthy(chat.imageUri)
  /\ chat' = [chat EXCEPT !.imageUri = Null]
  /\ UNCHANGED <<sends, loader, lookups, dialog, route, storage, uuids>>
  /\ UNCHANGED adapterVars
  /\ UNCHANGED saves

\* changeProvider(newProvider) up to its await of getApiKey.  A lookup for a
\* provider that has one pending already reads the same stored key.
changeProvider(newProvider) ==
  /\ Interactive
  /\ chat.provider # newProvider \/ newProvider \notin lookups
  /\ chat' = [chat EXCEPT !.provider = newProvider]
  /\ lookups' = lookups \cup {newProvider}
  /\ UNCHANGED <<sends, loader, dialog, route, storage, uuids>>
  /\ UNCHANGED adapterVars
  /\ UNCHANGED saves

\* changeProvider: getApiKey settled; setApiKey.  Lookups settle in any order.
ChangedApiKey(newProvider, readOk) ==
  /\ newProvider \in lookups
  /\ chat' = [chat EXCEPT !.apiKey = getApiKey(newProvider, readOk)]
  /\ lookups' = lookups \ {newProvider}
  /\ UNCHANGED <<sends, loader, dialog, route, storage, uuids>>
  /\ UNCHANGED adapterVars
  /\ UNCHANGED saves

\* Mutant: the input is not trimmed before it is tested.
NothingToSendUntrimmed == ~Truthy(chat.inputText) /\ ~Truthy(chat.imageUri)

\* !inputText.trim() && !imageUri
NothingToSend == ~Truthy(trim(chat.inputText)) /\ ~Truthy(chat.imageUri)

\* Mutant: the Send button stays enabled while a request is loading.
SendDisabledWhenNothingToSend == NothingToSend

\* The disabled prop of the Send button.
SendDisabled == chat.isLoading \/ NothingToSend

\* Mutant: handleSend does not test the api key.
NoApiKeyUnchecked == FALSE

\* !apiKey in handleSend
NoApiKey == ~Truthy(chat.apiKey)

ApiKeyMissingAlert(provider) ==
  [title |-> "API Key Missing",
   message |-> "Please set up your " \o provider \o " API key in the settings.",
   buttons |-> <<"Cancel", "Go to API Keys">>]

\* The first invocation of sendToAI no handleSend is waiting for.
FreeCall ==
  LET free == {i \in DOMAIN CallOrder : sends[CallOrder[i]].pc = "idle"}
  IN IF free = {} THEN "none"
     ELSE CallOrder[CHOOSE i \in free : \A j \in free : i <= j]

\* handleSend up to its await of sendToAI, which runs up to its own first
\* suspension in the same step.  c is the invocation of sendToAI it starts.
handleSend(c) ==
  /\ c = FreeCall
  /\ IF NothingToSend
     THEN UNCHANGED vars
     ELSE IF NoApiKey
     THEN /\ dialog' = ApiKeyMissingAlert(chat.provider)
          /\ UNCHANGED <<chat, sends, loader, lookups, route, storage, uuids>>
          /\ UNCHANGED adapterVars
          /\ UNCHANGED saves
     ELSE LET userMessage == Message(uuids + 1, chat.inputText, TRUE, chat.imageUri) IN
          /\ chat' = [chat EXCEPT !.messages = addMessage(@, userMessage),
                                  !.inputText = JStr(""),
                                  !.isLoading = TRUE]
          /\ uuids' = uuids + 1
          /\ sends' = [sends EXCEPT ![c] =
               [pc |-> "awaitSendToAI", userMessage |-> userMessage,
                provider |-> chat.provider, response |-> Undef,
                item |-> NoItem, history |-> <<>>]]
          /\ sendToAI(c, chat.provider, chat.apiKey,
                      Or(chat.inputText, JStr(FallbackPrompt)), chat.imageUri)
          /\ UNCHANGED <<loader, lookups, dialog, route, storage, saves>>

\* onPress of the Send button.
PressSend(c) == Interactive /\ ~SendDisabled /\ handleSend(c)

\* Mutant: the history record prefers the original image to the resized copy.
HistoryItemOriginalImage(userMessage, response, provider) ==
  LET historyImageUri == Or(userMessage.imageUri, response.scaledImageUri)
      item == ("id" :> userMessage.id) @@ ("prompt" :> userMessage.text) @@
              ("response" :> response.text) @@ ("provider" :> JStr(provider)) @@
              ("timestamp" :> userMessage.timestamp)
  IN JObj(IF Truthy(historyImageUri)
          THEN item @@ ("imageUri" :> historyImageUri)
          ELSE item)

\* The history record handleSend passes to saveHistoryItem.
HistoryItem(userMessage, response, provider) ==
  LET historyImageUri == Or(response.scaledImageUri, userMessage.imageUri)
      item == ("id" :> userMessage.id) @@ ("prompt" :> userMessage.text) @@
              ("response" :> response.text) @@ ("provider" :> JStr(provider)) @@
              ("timestamp" :> userMessage.timestamp)
  IN JObj(IF Truthy(historyImageUri)
          THEN item @@ ("imageUri" :> historyImageUri)
          ELSE item)

\* handleSend: sendToAI returned; the reply is appended and saveHistoryItem
\* runs up to its await of getHistory.
SendToAIReturned(c) ==
  /\ sends[c].pc = "awaitSendToAI"
  /\ pc[c] = "returned"
  /\ LET response == result[c][1]
         aiMessage == Message(uuids + 1, response.text, FALSE, Undef)
     IN /\ chat' = [chat EXCEPT !.messages = addMessage(@, aiMessage)]
        /\ sends' = [sends EXCEPT ![c].pc = "awaitGetHistory",
                                  ![c].response = response,
                                  ![c].item = HistoryItem(sends[c].userMessage, response,
                                                          sends[c].provider)]
  /\ uuids' = uuids + 1
  /\ UNCHANGED <<loader, lookups, dialog, route, storage>>
  /\ UNCHANGED adapterVars
  /\ UNCHANGED saves

\* Mutant: the catch block also logs a degraded history record.
catchAndLog(c) ==
  /\ chat' = [chat EXCEPT
       !.messages = addMessage(@, Message(uuids + 1, ErrorText, FALSE, Undef)),
       !.isLoading = FALSE]
  /\ uuids' = uuids + 1
  /\ sends' = [sends EXCEPT ![c].pc = "idle"]
  /\ storage' = [storage EXCEPT !.history =
       <<JSONRoundTrip(HistoryItem(sends[c].userMessage,
                                   [text |-> ErrorText, scaledImageUri |-> Undef],
                                   sends[c].provider))>> \o @]

\* Mutant: the catch block without the finally block.
catchWithoutFinally(c) ==
  /\ chat' = [chat EXCEPT
       !.messages = addMessage(@, Message(uuids + 1, ErrorText, FALSE, Undef))]
  /\ uuids' = uuids + 1
  /\ sends' = [sends EXCEPT ![c].pc = "idle"]
  /\ UNCHANGED storage

\* The catch and finally blocks of handleSend.
catch(c) ==
  /\ chat' = [chat EXCEPT
       !.messages = addMessage(@, Message(uuids + 1, ErrorText, FALSE, Undef)),
       !.isLoading = FALSE]
  /\ uuids' = uuids + 1
  /\ sends' = [sends EXCEPT ![c].pc = "idle"]
  /\ UNCHANGED storage

\* handleSend: sendToAI threw.
SendToAIThrew(c) ==
  /\ sends[c].pc = "awaitSendToAI"
  /\ pc[c] = "thrown"
  /\ catch(c)
  /\ UNCHANGED <<loader, lookups, dialog, route>>
  /\ UNCHANGED adapterVars
  /\ UNCHANGED saves

\* saveHistoryItem: getHistory settled; the item is put in front.
GetHistoryResolved(c, readOk) ==
  /\ sends[c].pc = "awaitGetHistory"
  /\ sends' = [sends EXCEPT ![c].pc = "awaitSetItem",
                            ![c].history = <<sends[c].item>> \o getHistory(readOk)]
  /\ UNCHANGED <<chat, loader, lookups, dialog, route, storage, uuids>>
  /\ UNCHANGED adapterVars
  /\ UNCHANGED saves

\* saveHistoryItem: setItem stored the history; handleSend clears the image
\* and ends in its finally block.
SetItemResolved(c) ==
  /\ sends[c].pc = "awaitSetItem"
  /\ storage' = [storage EXCEPT !.history =
       [i \in DOMAIN sends[c].history |-> JSONRoundTrip(sends[c].history[i])]]
  /\ chat' = [chat EXCEPT !.imageUri = Null, !.isLoading = FALSE]
  /\ sends' = [sends EXCEPT ![c].pc = "idle"]
  /\ UNCHANGED <<loader, lookups, dialog, route, uuids>>
  /\ UNCHANGED adapterVars
  /\ UNCHANGED saves

\* saveHistoryItem: setItem failed and the error is thrown on to handleSend.
SetItemRejected(c) ==
  /\ sends[c].pc = "awaitSetItem"
  /\ catch(c)
  /\ UNCHANGED <<loader, lookups, dialog, route>>
  /\ UNCHANGED adapterVars
  /\ UNCHANGED saves

\* The Cancel button of the alert.
AlertCancel ==
  /\ dialog # Null
  /\ \E i \in DOMAIN dialog.buttons : dialog.buttons[i] = "Cancel"
  /\ dialog' = Null
  /\ UNCHANGED <<chat, sends, loader, lookups, route, storage, uuids>>
  /\ UNCHANGED adapterVars
  /\ UNCHANGED saves

\* The 'Go to API Keys' button of the alert: navigation.navigate('ApiKeys').
AlertGoToApiKeys ==
  /\ dialog # Null
  /\ \E i \in DOMAIN dialog.buttons : dialog.buttons[i] = "Go to API Keys"
  /\ dialog' = Null
  /\ route' = "ApiKeys"
  /\ UNCHANGED <<chat, sends, loader, lookups, storage, uuids>>
  /\ UNCHANGED adapterVars
  /\ UNCHANGED saves

\* The back button of the stack header, on the API-keys screen.
GoBack ==
  /\ route = "ApiKeys"
  /\ dialog = Null
  /\ route' = "Chat"
  /\ UNCHANGED <<chat, sends, loader, lookups, dialog, storage, uuids>>
  /\ UNCHANGED adapterVars
  /\ UNCHANGED saves

(***************************************************************************)
(* ApiKeysScreen.tsx                                                       *)
(***************************************************************************)

\* The loading state of the API-keys screen: true from setLoading(true) of
\* saveKey to its finally block.
KeysLoading ==
  \E c \in Calls :
    saves[c].op = "saveApiKey" /\ saves[c].pc \in {"awaitGetApiKeys", "awaitSetApiKeys"}

\* The disabled prop of a Save button, for the key typed in its field.
SaveDisabled(key) == KeysLoading \/ ~Truthy(key)

\* What the user types and saves on the API-keys screen.
KeyEntries == {[provider |-> "perplexity", key |-> JStr("sk-pplx-1")]}

SavedAlert(provider) ==
  [title |-> "Success", message |-> provider \o " API key saved successfully",
   buttons |-> <<"OK">>]

SaveFailedAlert(provider) ==
  [title |-> "Error", message |-> "Failed to save " \o provider \o " API key",
   buttons |-> <<"OK">>]

\* saveKey(provider, key) up to its await of saveApiKey.
saveKey(c, provider, key) ==
  /\ saveApiKey(c, provider, key)
  /\ UNCHANGED <<chat, sends, loader, lookups, dialog, route, storage, uuids>>
  /\ UNCHANGED adapterVars

\* onPress of a Save button.
PressSave(c, provider, key) ==
  /\ route = "ApiKeys"
  /\ dialog = Null
  /\ ~SaveDisabled(key)
  /\ c = CallOrder[1]
  /\ saveKey(c, provider, key)

\* saveKey: saveApiKey resolved; the success alert and the finally block.
saveKeyResolved(c) ==
  /\ SetApiKeysResolved(c)
  /\ dialog' = SavedAlert(saves[c].provider)
  /\ UNCHANGED <<chat, sends, loader, lookups, route, uuids>>
  /\ UNCHANGED adapterVars

\* saveKey: saveApiKey threw; the error alert and the finally block.
saveKeyRejected(c) ==
  /\ SetApiKeysRejected(c)
  /\ dialog' = SaveFailedAlert(saves[c].provider)
  /\ UNCHANGED <<chat, sends, loader, lookups, route, uuids>>
  /\ UNCHANGED adapterVars

\* The OK button of an alert.
AlertOK ==
  /\ dialog # Null
  /\ \E i \in DOMAIN dialog.buttons : dialog.buttons[i] = "OK"
  /\ dialog' = Null
  /\ UNCHANGED <<chat, sends, loader, lookups, route, storage, uuids, saves>>
  /\ UNCHANGED adapterVars

ReadOutcomes == {TRUE, FALSE}

InitChat ==
  /\ AdapterInit
  /\ \E routeImage \in RouteImages : ChatConstructed(routeImage)
  /\ Stored(<<>>, StoredKeys)

NextChat ==
  \/ Mount
  \/ \E readOk \in ReadOutcomes : GetSettingsResolved(readOk)
  \/ \E readOk \in ReadOutcomes : LoadedApiKey(readOk)
  \/ \E text \in TextInputs : setInputText(text)
  \/ \E uri \in PickedImages : pickImage(uri)
  \/ removeImage
  \/ \E newProvider \in TappedChips : changeProvider(newProvider)
  \/ \E newProvider \in TappedChips, readOk \in ReadOutcomes :
       ChangedApiKey(newProvider, readOk)
  \/ \E c \in Calls : PressSend(c)
  \/ AlertCancel
  \/ AlertGoToApiKeys
  \/ GoBack
  \/ \E c \in Calls, imageData \in ChatManipResults :
       ImageResolved(c, imageData) /\ UNCHANGED chatVars
  \/ \E c \in Calls : ImageRejected(c) /\ UNCHANGED chatVars
  \/ \E c \in Calls : Post(c) /\ UNCHANGED chatVars
  \/ \E c \in Calls, r \in ChatReplies : Respond(c, r) /\ UNCHANGED chatVars
  \/ \E c \in Calls : SendToAIReturned(c)
  \/ \E c \in Calls : SendToAIThrew(c)
  \/ \E c \in Calls, readOk \in ReadOutcomes : GetHistoryResolved(c, readOk)
  \/ \E c \in Calls : SetItemResolved(c)
  \/ \E c \in Calls : SetItemRejected(c)

SpecChat == InitChat /\ [][NextChat]_vars

\* A step by which a call that handleSend of c awaits, or a call awaited
\* inside it, settles and the code after the await runs.
AwaitedCallSettles(c) ==
  \/ \E imageData \in ChatManipResults : ImageResolved(c, imageData) /\ UNCHANGED chatVars
  \/ ImageRejected(c) /\ UNCHANGED chatVars
  \/ Post(c) /\ UNCHANGED chatVars
  \/ \E r \in ChatReplies : Respond(c, r) /\ UNCHANGED chatVars
  \/ SendToAIReturned(c)
  \/ SendToAIThrew(c)
  \/ \E readOk \in ReadOutcomes : GetHistoryResolved(c, readOk)
  \/ SetItemResolved(c)
  \/ SetItemRejected(c)

\* The chat screen opened without an image, and the API-keys screen above it.
InitKeys == AdapterInit /\ ChatConstructed(Undef) /\ Stored(<<>>, StoredKeys)

NextKeys ==
  \/ Mount
  \/ \E readOk \in ReadOutcomes : GetSettingsResolved(readOk)
  \/ \E readOk \in ReadOutcomes : LoadedApiKey(readOk)
  \/ \E text \in TextInputs : setInputText(text)
  \/ \E newProvider \in TappedChips : changeProvider(newProvider)
  \/ \E newProvider \in TappedChips, readOk \in ReadOutcomes :
       ChangedApiKey(newProvider, readOk)
  \/ \E c \in Calls : PressSend(c)
  \/ AlertCancel
  \/ AlertGoToApiKeys
  \/ GoBack
  \/ \E c \in Calls, e \in KeyEntries : PressSave(c, e.provider, e.key)
  \/ \E c \in Calls, readOk \in ReadOutcomes : GetApiKeysResolved(c, readOk)
  \/ \E c \in Calls : saveKeyResolved(c)
  \/ \E c \in Calls : saveKeyRejected(c)
  \/ AlertOK
  \/ \E c \in Calls : Post(c) /\ UNCHANGED chatVars
  \/ \E c \in Calls, r \in ChatReplies : Respond(c, r) /\ UNCHANGED chatVars
  \/ \E c \in Calls : SendToAIReturned(c)
  \/ \E c \in Calls : SendToAIThrew(c)
  \/ \E c \in Calls, readOk \in ReadOutcomes : GetHistoryResolved(c, readOk)
  \/ \E c \in Calls : SetItemResolved(c)
  \/ \E c \in Calls : SetItemRejected(c)

SpecKeys == InitKeys /\ [][NextKeys]_vars

(***************************************************************************)
(* storageService.ts called by two callers at once                         *)
(***************************************************************************)

\* A history item stored by an earlier session.
OldItem ==
  JObj(("id" :> JStr("h0")) @@ ("prompt" :> JStr("Was bedeutet 'Haus'?")) @@
       ("response" :> JStr("house")) @@ ("provider" :> JStr("anthropic")) @@
       ("timestamp" :> JNum(1)))

\* The items the callers save.
NewItems ==
  {JObj(("id" :> JStr(id)) @@ ("prompt" :> JStr("der Hund")) @@
        ("response" :> JStr("the dog")) @@ ("provider" :> JStr("openai")) @@
        ("timestamp" :> JNum(2))) : id \in {"h1", "h2"}}

\* The histories the store starts with.
StoredHistories == {<<>>, <<OldItem>>}

\* The keys the callers save.
SavedEntries ==
  {[provider |-> "perplexity", key |-> JStr("sk-pplx-1")],
   [provider |-> "openai", key |-> JStr("sk-oai-2")]}

InitStore ==
  /\ AdapterInit
  /\ ChatConstructed(Undef)
  /\ \E history \in StoredHistories : Stored(history, StoredKeys)

\* Each caller makes one call of the store.
NextStore ==
  \/ \E c \in Calls, e \in SavedEntries :
       /\ saves[c].op = "none"
       /\ saveApiKey(c, e.provider, e.key)
       /\ UNCHANGED <<chat, sends, loader, lookups, dialog, route, storage, uuids>>
       /\ UNCHANGED adapterVars
  \/ \E c \in Calls, readOk \in ReadOutcomes : GetApiKeysResolved(c, readOk)
  \/ \E c \in Calls :
       /\ SetApiKeysResolved(c)
       /\ UNCHANGED <<chat, sends, loader, lookups, dialog, route, uuids>>
       /\ UNCHANGED adapterVars
  \/ \E c \in Calls :
       /\ SetApiKeysRejected(c)
       /\ UNCHANGED <<chat, sends, loader, lookups, dialog, route, uuids>>
       /\ UNCHANGED adapterVars
  \/ \E c \in Calls, item \in NewItems :
       saves[c].op = "none" /\ saveHistoryItem(c, item)
  \/ \E c \in Calls, readOk \in ReadOutcomes : HistoryRead(c, readOk)
  \/ \E c \in Calls : HistoryStored(c)
  \/ \E c \in Calls : HistoryStoreRejected(c)

SpecStore == InitStore /\ [][NextStore]_vars

\* The chat screen when every awaited call settles.
SpecChatSettling ==
  InitChat /\ [][NextChat]_vars /\ \A c \in Calls : WF_vars(AwaitedCallSettles(c))

(***************************************************************************)
(* Properties                                                              *)
(***************************************************************************)
Last(s) == s[Len(s)]
IsPrefix(s, t) == Len(s) <= Len(t) /\ SubSeq(t, 1, Len(s)) = s
Has(s, x) == \E i \in DOMAIN s : s[i] = x

\* C1: for every provider, an invocation whose credential is empty or absent
\* has thrown the missing-credential error in the very step of the call, with
\* or without an image: it is never seen in flight, it made no axios.post
\* call and no imageToBase64 call, and returned nothing.
C1_MissingCredentialFailsFast ==
  \A c \in Calls :
    (pc[c] # "idle" /\ args[c].apiKey \in {Undef, JStr("")}) =>
      /\ pc[c] = "thrown"
      /\ Len(thrown[c]) = 1
      /\ thrown[c][1].message = "API key for " \o args[c].provider \o " is not set"
      /\ thrown[c][1].response = Undef
      /\ requests[c] = <<>>
      /\ transformed[c] = <<>>
      /\ result[c] = <<>>

C1_Witness ==
  \E c \in Calls :
    /\ pc[c] = "thrown"
    /\ args[c].apiKey = JStr("")
    /\ args[c].imageUri # Null
    /\ Len(thrown[c]) = 1

\* C2: an invocation makes at most one axios.post call, however it ends.
C2_AtMostOneNetworkCall ==
  \A c \in Calls : Len(requests[c]) <= 1

C2_Witness ==
  \E c \in Calls :
    /\ pc[c] = "thrown"
    /\ Len(requests[c]) = 1
    /\ Len(reply[c]) = 1
    /\ reply[c][1].kind = "noResponse"

\* C3: when imageToBase64 rejects, the invocation has thrown that error,
\* returned nothing, and made no axios.post call, then or later.
C3_ImageFailureAbortsBeforeNetwork ==
  \A c \in Calls :
    (Len(manip[c]) = 1 /\ ~manip[c][1].ok) =>
      /\ pc[c] = "thrown"
      /\ thrown[c] = <<ImageError>>
      /\ result[c] = <<>>
      /\ requests[c] = <<>>

C3_Witness ==
  \E c \in Calls :
    /\ Len(manip[c]) = 1
    /\ ~manip[c][1].ok
    /\ args[c].imageUri # Null
    /\ pc[c] = "thrown"

\* The order of the steps of one invocation.
StepOrder(a) ==
  <<"validate">> \o (IF a.imageUri \in {Null, JStr("")} THEN <<>> ELSE <<"transform">>)
    \o <<"body", "post", "parse">>

\* The step at which a failed invocation failed, from what the caller passed
\* and what the environment answered.
FailedStep(c) ==
  IF args[c].apiKey \in {Undef, JStr("")} THEN "validate"
  ELSE IF Len(manip[c]) = 1 /\ ~manip[c][1].ok THEN "transform"
  ELSE IF Len(reply[c]) = 1 /\ ~(reply[c][1].kind = "response" /\ reply[c][1].status \in 200..299)
  THEN "post"
  ELSE "parse"

\* C4: the steps of an invocation run in the order validation, image
\* transform (only with an image), body construction, network call, parsing;
\* each is entered only after the one before it completed; a result exists
\* only when all of them ran and none threw; and an invocation that threw
\* stopped at the failing step and returned nothing.
C4_StrictSequence ==
  \A c \in Calls :
    pc[c] # "idle" =>
      /\ IsPrefix(steps[c], StepOrder(args[c]))
      /\ Has(steps[c], "transform") <=> transformed[c] # <<>>
      /\ Has(steps[c], "body") <=> frame[c].requestBody # Undef
      /\ Has(steps[c], "post") <=> requests[c] # <<>>
      /\ pc[c] = "awaitImage" => Last(steps[c]) = "transform" /\ manip[c] = <<>>
      /\ pc[c] = "awaitBody" => Last(steps[c]) = "body"
      /\ pc[c] = "awaitPost" => Last(steps[c]) = "post" /\ reply[c] = <<>>
      /\ pc[c] \in {"awaitImage", "awaitBody", "awaitPost"} =>
           result[c] = <<>> /\ thrown[c] = <<>>
      /\ result[c] # <<>> =>
           /\ pc[c] = "returned"
           /\ steps[c] = StepOrder(args[c])
           /\ thrown[c] = <<>>
           /\ Has(steps[c], "transform") => (Len(manip[c]) = 1 /\ manip[c][1].ok)
           /\ Len(reply[c]) = 1 /\ reply[c][1].status \in 200..299
      /\ thrown[c] # <<>> =>
           /\ pc[c] = "thrown"
           /\ result[c] = <<>>
           /\ Last(steps[c]) = FailedStep(c)

C4_Witness ==
  \E c \in Calls :
    /\ pc[c] = "returned"
    /\ args[c].imageUri # Null
    /\ steps[c] = <<"validate", "transform", "body", "post", "parse">>
    /\ Len(result[c]) = 1

\* C5: an invocation with an empty prompt and no image is rejected with an
\* error: it makes no axios.post call and returns nothing.
C5_EmptyRequestRejected ==
  \A c \in Calls :
    (pc[c] # "idle" /\ args[c].prompt = JStr("") /\ args[c].imageUri = Null) =>
      /\ requests[c] = <<>>
      /\ result[c] = <<>>

\* A 2xx body is well formed for a provider when it is that provider's
\* envelope around a reply text.
WellFormed(provider, data) ==
  \E t \in ReplyTexts :
    data = (IF provider = "anthropic" THEN AnthropicPayload(t) ELSE OpenAIPayload(t))

Answered2xx(c) ==
  /\ Len(reply[c]) = 1
  /\ reply[c][1].kind = "response"
  /\ reply[c][1].status \in 200..299

\* C6: for every provider, an invocation answered 2xx with a body that lacks
\* a key of the reply path, at whatever level, has thrown and returned
\* nothing; and no returned result has a text that is undefined, null or
\* empty.
C6_MalformedBodyIsParseError ==
  \A c \in Calls :
    /\ (Answered2xx(c) /\ ~WellFormed(args[c].provider, reply[c][1].data)) =>
         (pc[c] = "thrown" /\ result[c] = <<>>)
    /\ result[c] # <<>> =>
         (result[c][1].text.t = "string" /\ result[c][1].text # JStr(""))

\* C7: an invocation answered 2xx with the provider's own envelope around a
\* text t (choices[0].message.content for openai and perplexity,
\* content[0].text for anthropic) returns exactly t.
C7_ParseReturnsEmbeddedText ==
  \A c \in Calls : \A t \in ReplyTexts :
    (/\ Answered2xx(c)
     /\ \/ args[c].provider \in {"openai", "perplexity"}
           /\ reply[c][1].data = OpenAIPayload(t)
        \/ args[c].provider = "anthropic"
           /\ reply[c][1].data = AnthropicPayload(t)) =>
      /\ pc[c] = "returned"
      /\ Len(result[c]) = 1
      /\ result[c][1].text = JStr(t)
      /\ thrown[c] = <<>>

C7_Witness ==
  \E c \in Calls : \E t \in ReplyTexts :
    /\ args[c].provider = "anthropic"
    /\ Answered2xx(c)
    /\ reply[c][1].data = AnthropicPayload(t)
    /\ Len(result[c]) = 1
    /\ result[c][1].text = JStr(t)

IsErrorBody(data, m) == data = JObj([error |-> JObj([message |-> JStr(m)])])

ErrorMessages == {"rate limited"}

\* C8: an invocation answered with a non-2xx status and the body
\* {error: {message: m}} has thrown an error that carries the response, with
\* its status and with m at response.data.error.message, has shown m in the
\* provider's error alert, and returned nothing.
C8_HttpErrorCarriesProviderMessage ==
  \A c \in Calls : \A m \in ErrorMessages :
    (/\ Len(reply[c]) = 1
     /\ reply[c][1].kind = "response"
     /\ reply[c][1].status \notin 200..299
     /\ IsErrorBody(reply[c][1].data, m)) =>
      /\ pc[c] = "thrown"
      /\ result[c] = <<>>
      /\ Len(thrown[c]) = 1
      /\ thrown[c][1].response =
           JObj([status |-> JNum(reply[c][1].status),
                 data |-> JObj([error |-> JObj([message |-> JStr(m)])])])
      /\ alerts[c] = <<[title |-> args[c].provider \o " API Error", message |-> JStr(m)]>>

C8_Witness ==
  \E c \in Calls :
    /\ Len(reply[c]) = 1
    /\ reply[c][1].status = 429
    /\ IsErrorBody(reply[c][1].data, "rate limited")
    /\ pc[c] = "thrown"

\* The failure category of an invocation whose axios.post call failed.
FailureCategory(c) ==
  IF reply[c][1].kind = "response"
  THEN IF reply[c][1].data = JStr("") THEN "httpNoBody" ELSE "httpStructured"
  ELSE reply[c][1].kind

PostFailed(c) == Len(reply[c]) = 1 /\ ~Answered2xx(c)

\* The four failure categories of the network call are thrown, and any two
\* invocations that failed in different categories threw different errors
\* and showed different alerts; a status without a body shows the generic
\* status-code message.
C9_Distinct ==
  /\ \A c \in Calls :
       PostFailed(c) =>
         /\ pc[c] = "thrown"
         /\ Len(thrown[c]) = 1
         /\ Len(alerts[c]) = 1
         /\ FailureCategory(c) = "httpNoBody" =>
              alerts[c][1].message = JStr("Error: " \o NumToStr(reply[c][1].status))
  /\ \A c1, c2 \in Calls :
       (PostFailed(c1) /\ PostFailed(c2) /\ FailureCategory(c1) # FailureCategory(c2)) =>
         /\ thrown[c1] # thrown[c2]
         /\ alerts[c1] # alerts[c2]

\* A returned result means that nothing failed: the credential was there,
\* the image, if any, was converted, and the answer was a 2xx body well
\* formed for the provider.
C9_NoneSwallowed ==
  \A c \in Calls :
    result[c] # <<>> =>
      /\ args[c].apiKey \notin {Undef, JStr("")}
      /\ Len(manip[c]) = 1 => manip[c][1].ok
      /\ Answered2xx(c)
      /\ WellFormed(args[c].provider, reply[c][1].data)

\* C9: every failure reaches the caller as a distinguishable error (C9_Distinct)
\* and none is swallowed into a returned result (C9_NoneSwallowed).
C9_EveryFailureSurfaced == C9_Distinct /\ C9_NoneSwallowed

\* C10: for each provider, the body built for a non-empty prompt and no image
\* has messages equal to the one-element array [{role: "user", content:
\* prompt}]: one message, by the user, whose content is the prompt text
\* itself, with no image part and no preamble; and that body is what is sent.
C10_TextOnlyBody ==
  \A c \in Calls :
    (/\ pc[c] \in {"awaitBody", "awaitPost", "returned", "thrown"}
     /\ frame[c].requestBody # Undef
     /\ args[c].imageUri = Null
     /\ args[c].prompt # JStr("")) =>
      /\ Get(frame[c].requestBody, "messages") =
           JArr(<<JObj([role |-> JStr("user"), content |-> args[c].prompt])>>)
      /\ Get(frame[c].requestBody, "model") = JStr(API_CONFIG[args[c].provider].model)
      /\ \A i \in DOMAIN requests[c] : requests[c][i].data = frame[c].requestBody

C10_Witness ==
  \E c \in Calls :
    /\ pc[c] = "awaitPost"
    /\ args[c].provider = "perplexity"
    /\ args[c].imageUri = Null
    /\ args[c].prompt = JStr("Was bedeutet 'Haus'?")
    /\ Len(requests[c]) = 1

\* The text of the first part of the one message of a body with an image.
TextOfBody(body) == Get(At(Get(At(Get(body, "messages"), 0), "content"), 0), "text")

BodyBuilt(c) == pc[c] # "idle" /\ frame[c].requestBody # Undef

WithImage(c) == args[c].imageUri \notin {Null, JStr("")}

C12_PreambleIffImage ==
  \A c \in Calls :
    BodyBuilt(c) =>
      IF WithImage(c)
      THEN TextOfBody(frame[c].requestBody) = JStr(defaultPrompt \o args[c].prompt.s)
      ELSE Get(At(Get(frame[c].requestBody, "messages"), 0), "content") = args[c].prompt

C12_Witness ==
  \E c, d \in Calls :
    /\ c # d
    /\ BodyBuilt(c) /\ WithImage(c) /\ args[c].prompt = JStr("Was bedeutet 'Haus'?")
    /\ BodyBuilt(d) /\ WithImage(d) /\ args[d].provider # args[c].provider

\* The image part each provider expects for an encoding.
ExpectedImagePart(provider, base64) ==
  IF provider = "anthropic"
  THEN JObj([type |-> JStr("image"),
             source |-> JObj([type |-> JStr("base64"),
                              media_type |-> JStr("image/jpeg"),
                              data |-> JStr(base64)])])
  ELSE JObj([type |-> JStr("image_url"),
             image_url |-> JObj([url |-> JStr("data:image/jpeg;base64," \o base64)])])

\* C13: a body with an image has one message, by the user, whose content has
\* exactly two parts: a text part, then the image part, which is an inline
\* JPEG data URI for openai and perplexity and a base64 image block of media
\* type image/jpeg for anthropic, holding the encoding that imageToBase64
\* produced in this invocation.
C13_ImageBodyShape ==
  \A c \in Calls :
    (BodyBuilt(c) /\ WithImage(c)) =>
      LET messages == Get(frame[c].requestBody, "messages")
          content == Get(At(messages, 0), "content")
      IN /\ messages.t = "array" /\ Len(messages.a) = 1
         /\ Get(At(messages, 0), "role") = JStr("user")
         /\ content.t = "array" /\ Len(content.a) = 2
         /\ Get(At(content, 0), "type") = JStr("text")
         /\ Len(manip[c]) = 1 /\ manip[c][1].ok
         /\ At(content, 1) = ExpectedImagePart(args[c].provider, manip[c][1].data.base64)

C13_Witness ==
  \E c, d \in Calls :
    /\ BodyBuilt(c) /\ WithImage(c) /\ args[c].provider = "anthropic"
    /\ BodyBuilt(d) /\ WithImage(d) /\ args[d].provider = "perplexity"
    /\ manip[c] # manip[d]

\* C14: a returned result names the provider requested; its scaledImageUri
\* is the uri imageToBase64 produced in this invocation when an image was
\* passed, and undefined when none was.
C14_ResultCarriesProviderAndScaledUri ==
  \A c \in Calls :
    result[c] # <<>> =>
      /\ result[c][1].provider = args[c].provider
      /\ IF WithImage(c)
         THEN /\ Len(manip[c]) = 1 /\ manip[c][1].ok
              /\ result[c][1].scaledImageUri = JStr(manip[c][1].data.scaledUri)
         ELSE result[c][1].scaledImageUri = Undef

C14_Witness ==
  \E c, d \in Calls :
    /\ result[c] # <<>> /\ WithImage(c)
    /\ result[d] # <<>> /\ WithImage(d)
    /\ result[c][1].scaledImageUri # result[d][1].scaledImageUri

ExpectedUrl(provider) ==
  CASE provider = "openai" -> "https://api.openai.com/v1/chat/completions"
    [] provider = "anthropic" -> "https://api.anthropic.com/v1/messages"
    [] provider = "perplexity" -> "https://api.perplexity.ai/chat/completions"

ExpectedModel(provider) ==
  CASE provider = "openai" -> "gpt-4-vision-preview"
    [] provider = "anthropic" -> "claude-3-opus-20240229"
    [] provider = "perplexity" -> "sonar"

\* C15: every request goes to the one endpoint of the provider requested,
\* names that provider's one model, and carries headers built from the
\* credential of this invocation: Authorization: Bearer <key> for openai and
\* perplexity, x-api-key: <key> with anthropic-version for anthropic.
C15_RequestFollowsProviderConfig ==
  \A c \in Calls : \A i \in DOMAIN requests[c] :
    LET r == requests[c][i]
        h == r.headers
    IN /\ r.url = ExpectedUrl(args[c].provider)
       /\ Get(r.data, "model") = JStr(ExpectedModel(args[c].provider))
       /\ Get(h, "Content-Type") = JStr("application/json")
       /\ IF args[c].provider = "anthropic"
          THEN /\ Get(h, "x-api-key") = args[c].apiKey
               /\ Get(h, "anthropic-version") = JStr("2023-06-01")
               /\ Get(h, "Authorization") = Undef
          ELSE /\ Get(h, "Authorization") = JStr("Bearer " \o args[c].apiKey.s)
               /\ Get(h, "x-api-key") = Undef

C15_Witness ==
  \E c, d \in Calls :
    /\ Len(requests[c]) = 1 /\ args[c].provider = "anthropic"
    /\ Len(requests[d]) = 1 /\ args[d].provider = "openai"

Settled(c) == pc[c] \in {"returned", "thrown"}

\* Everything one invocation holds.
CallState(c) ==
  <<pc[c], args[c], frame[c], steps[c], transformed[c], manip[c], requests[c],
    reply[c], result[c], thrown[c], alerts[c]>>

\* Two settled invocations that were passed the same arguments and got the
\* same answers from the image transform and the provider ended the same
\* way, whatever the other invocation did in between.
C19_SameInputsSameOutcome ==
  \A c, d \in Calls :
    (/\ Settled(c) /\ Settled(d)
     /\ args[c] = args[d] /\ manip[c] = manip[d] /\ reply[c] = reply[d]) =>
      /\ pc[c] = pc[d]
      /\ result[c] = result[d]
      /\ thrown[c] = thrown[d]
      /\ requests[c] = requests[d]

\* C19: two concurrent invocations are independent.  In every interleaving
\* of their suspension points a step of one invocation leaves everything the
\* other holds unchanged, and the outcome of an invocation is a function of
\* its own arguments and its own answers (C19_SameInputsSameOutcome).
C19_InvocationsIndependent ==
  /\ []C19_SameInputsSameOutcome
  /\ [][\A c, d \in Calls :
          (c # d /\ CallState(c)' # CallState(c)) => CallState(d)' = CallState(d)]_vars

C19_Witness ==
  \E c, d \in Calls :
    /\ c # d
    /\ pc[c] = "awaitPost"
    /\ pc[d] = "awaitImage"
    /\ args[c].provider # args[d].provider

(***************************************************************************)
(* The chat screen                                                         *)
(***************************************************************************)

IsErrorMessage(m) == ~m.isUser /\ m.text = ErrorText

Exchanged(c) == sends[c].userMessage # NoMessage

\* The messages that follow the user message of the exchange of c, up to
\* the next user message.
RECURSIVE UpToUser(_)
UpToUser(ms) ==
  IF ms = <<>> \/ Head(ms).isUser THEN <<>> ELSE <<Head(ms)>> \o UpToUser(Tail(ms))

ShownReplies(c) ==
  LET at == {i \in DOMAIN chat.messages : chat.messages[i].id = sends[c].userMessage.id}
  IN IF at = {} THEN <<>>
     ELSE LET i == CHOOSE i \in at : TRUE
          IN UpToUser(SubSeq(chat.messages, i + 1, Len(chat.messages)))

Recorded(c) ==
  \E i \in DOMAIN storage.history :
    Get(storage.history[i], "id") = sends[c].userMessage.id

\* C16: when the sendToAI call of an exchange has failed (thrown), the
\* conversation shows no reply for the exchange until handleSend has caught
\* the error and exactly one reply, the error message, from then on; no
\* history record is ever written for the exchange.
C16_FailedCallOneErrorNoRecord ==
  \A c \in Calls :
    (Exchanged(c) /\ pc[c] = "thrown") =>
      /\ ~Recorded(c)
      /\ sends[c].pc \in {"awaitSendToAI", "idle"}
      /\ sends[c].pc = "awaitSendToAI" => ShownReplies(c) = <<>>
      /\ sends[c].pc = "idle" =>
           Len(ShownReplies(c)) = 1 /\ IsErrorMessage(ShownReplies(c)[1])

C16_Witness ==
  \E c \in Calls :
    /\ Exchanged(c)
    /\ pc[c] = "thrown"
    /\ Len(reply[c]) = 1
    /\ sends[c].pc = "idle"
    /\ ~chat.isLoading

UserMessages(ms) == {i \in DOMAIN ms : ms[i].isUser}

\* C17: while the screen holds no api key (undefined or empty), no step
\* starts a sendToAI call, and a press of Send appends no message, leaves the
\* adapter alone and shows the 'API Key Missing' alert for the selected
\* provider, whose 'Go to API Keys' button leads to the API-keys screen.
C17_MissingKeySurfacedBeforeNetwork ==
  /\ [][~Truthy(chat.apiKey) => started' = started]_vars
  /\ [][(~Truthy(chat.apiKey) /\ \E c \in Calls : PressSend(c)) =>
          /\ chat'.messages = chat.messages
          /\ UNCHANGED adapterVars
          /\ dialog' = ApiKeyMissingAlert(chat.provider)]_vars
  /\ []((dialog # Null /\ dialog.title = "API Key Missing") =>
          /\ Has(dialog.buttons, "Go to API Keys")
          /\ ENABLED (AlertGoToApiKeys /\ route' = "ApiKeys"))

C17_Witness ==
  /\ dialog # Null
  /\ dialog.title = "API Key Missing"
  /\ ~Truthy(chat.apiKey)
  /\ Truthy(chat.inputText)
  /\ chat.provider = "perplexity"
  /\ started = 0

\* Whitespace only, the empty text included.
IsBlank(v) == \A i \in 1..Len(v.s) : SubSeq(v.s, i, i) \in {" ", "\t", "\n"}

NoRequestContent == IsBlank(chat.inputText) /\ chat.imageUri \in {Null, Undef, JStr("")}

\* C18: in every state where the input is blank and no image is selected
\* the Send button is disabled and no step starts a sendToAI call or appends
\* a user message; every sendToAI call the screen made has a prompt that is
\* not blank, or an image.
C18_NoEmptyRequestSent ==
  /\ [](NoRequestContent => SendDisabled)
  /\ [][NoRequestContent =>
          /\ started' = started
          /\ UserMessages(chat'.messages) = UserMessages(chat.messages)]_vars
  /\ [](\A c \in Calls :
          pc[c] # "idle" => ~IsBlank(args[c].prompt) \/ Truthy(args[c].imageUri))

C18_Witness ==
  /\ chat.inputText = JStr("  ")
  /\ ~Truthy(chat.imageUri)
  /\ Truthy(chat.apiKey)
  /\ ~chat.isLoading
  /\ Interactive

InFlight(c) == pc[c] \notin {"idle", "returned", "thrown"}

\* C20: while a sendToAI call started by the screen is unresolved the screen
\* is loading and the Send button is disabled, no other call is unresolved,
\* and no step starts a second call.
C20_OneRequestInFlight ==
  /\ [](\A c \in Calls :
          InFlight(c) =>
            /\ chat.isLoading
            /\ SendDisabled
            /\ sends[c].pc = "awaitSendToAI"
            /\ \A d \in Calls \ {c} : ~InFlight(d))
  /\ [][(\E c \in Calls : InFlight(c)) => started' = started]_vars

C20_Witness ==
  \E c \in Calls :
    /\ pc[c] = "awaitPost"
    /\ ~NothingToSend
    /\ Interactive

\* The exchange of c succeeded: sendToAI returned, the history was stored
\* and handleSend ended with the reply as the only answer shown.
Succeeded(c) ==
  /\ Exchanged(c)
  /\ pc[c] = "returned"
  /\ sends[c].pc = "idle"
  /\ Len(ShownReplies(c)) = 1
  /\ ~IsErrorMessage(ShownReplies(c)[1])

RecordsOf(c) ==
  {i \in DOMAIN storage.history :
     Get(storage.history[i], "id") = sends[c].userMessage.id}

\* C21: after a successful exchange the stored history holds exactly one
\* record with the id of the user message; it carries the text and the
\* timestamp of the user message, the text of the response and the provider
\* the request went to; its imageUri is the resized copy the image transform
\* returned, not the original, when an image was sent, and is absent
\* otherwise.
C21_OneRecordPerSuccessfulExchange ==
  \A c \in Calls :
    Succeeded(c) =>
      /\ Cardinality(RecordsOf(c)) = 1
      /\ \A i \in RecordsOf(c) :
           LET record == storage.history[i].f IN
           /\ record["prompt"] = sends[c].userMessage.text
           /\ record["timestamp"] = sends[c].userMessage.timestamp
           /\ record["response"] = result[c][1].text
           /\ record["provider"] = JStr(args[c].provider)
           /\ IF WithImage(c)
              THEN /\ "imageUri" \in DOMAIN record
                   /\ record["imageUri"] = JStr(manip[c][1].data.scaledUri)
                   /\ record["imageUri"] # args[c].imageUri
              ELSE /\ DOMAIN record = {"id", "prompt", "response", "provider", "timestamp"}

C21_Witness ==
  \E c \in Calls :
    /\ Succeeded(c)
    /\ WithImage(c)
    /\ args[c].provider = "openai"
    /\ sends[c].userMessage.text = JStr("")

\* C22: every step that starts a sendToAI call passes the key stored for the
\* provider it passes.
C22_RequestCarriesKeyOfItsProvider ==
  [][\A c \in Calls :
       (~InFlight(c) /\ InFlight(c)') =>
         args'[c].apiKey = Get(storage.apiKeys, args'[c].provider)]_vars

\* The AI reply of the exchange of c has been appended.
ReplyShown(c) ==
  /\ Exchanged(c)
  /\ ShownReplies(c) # <<>>
  /\ ~IsErrorMessage(ShownReplies(c)[1])

\* C25: once the AI reply of an exchange is shown, no error message is shown
\* for that exchange, and the step that ends its handleSend leaves no image
\* selected, also when saveHistoryItem failed.
C25_NoErrorAfterReplyAndImageCleared ==
  /\ [](\A c \in Calls :
          ReplyShown(c) =>
            \A i \in DOMAIN ShownReplies(c) : ~IsErrorMessage(ShownReplies(c)[i]))
  /\ [][\A c \in Calls :
          (ReplyShown(c) /\ sends[c].pc # "idle" /\ sends'[c].pc = "idle") =>
            ~Truthy(chat'.imageUri)]_vars

\* C27: provided every awaited call settles, a handleSend that has started
\* its sendToAI call is followed by a state in which it has ended and the
\* screen is not loading, whether sendToAI returned or threw and whether
\* saveHistoryItem stored the history or threw.
C27_SendEndsNotLoading ==
  \A c \in Calls :
    (sends[c].pc = "awaitSendToAI") ~> (sends[c].pc = "idle" /\ ~chat.isLoading)

C27_Witness ==
  \E c \in Calls :
    /\ ReplyShown(c)
    /\ Len(ShownReplies(c)) = 2
    /\ IsErrorMessage(ShownReplies(c)[2])
    /\ sends[c].pc = "idle"
    /\ ~chat.isLoading

\* The API-keys screen has saved a non-empty key for provider p: its last
\* saveKey showed the success alert and the store holds that key.
KeySavedFor(p) ==
  \E c \in Calls :
    /\ saves[c].op = "saveApiKey"
    /\ saves[c].pc = "resolved"
    /\ saves[c].provider = p
    /\ Truthy(saves[c].key)
    /\ Get(storage.apiKeys, p) = saves[c].key

\* C26: once a non-empty key of the selected provider has been saved through
\* the API-keys screen, and no key lookup of the mounted chat screen is
\* pending, no Send raises the missing-key alert and every Send that starts a
\* request passes the saved key.
C26_SendAfterSaveUsesSavedKey ==
  [][(loader.pc = "done" /\ lookups = {} /\ KeySavedFor(chat.provider)) =>
       /\ ~(dialog = Null /\ dialog' # Null /\ dialog'.title = "API Key Missing")
       /\ \A c \in Calls :
            (sends[c].pc = "idle" /\ sends'[c].pc = "awaitSendToAI") =>
              args'[c].apiKey = Get(storage.apiKeys, chat.provider)]_vars

\* The other callers of the store have made no call.
OnlyCall(c) == \A d \in Calls \ {c} : saves[d].op = "none"

\* C23: when every saveHistoryItem call made has completed successfully,
\* each after a successful read, the stored history holds every saved item,
\* also when the reads and writes of the calls interleave.
C23_NoLostHistoryItem ==
  (\A c \in Calls :
     saves[c].op = "saveHistoryItem" => saves[c].pc = "resolved" /\ saves[c].readOk)
  => \A c \in Calls :
       saves[c].op = "saveHistoryItem" => Has(storage.history, saves[c].item)

\* C24: the write that ends a saveHistoryItem or saveApiKey call made on its
\* own keeps every history item, and every key of the other providers, that
\* was stored before it, also when the read inside the call failed.
C24_ReadFailureKeepsStoredData ==
  [][\A c \in Calls :
       (OnlyCall(c) /\ saves'[c].pc = "resolved") =>
         /\ (saves[c].pc = "awaitSetHistory" =>
               \A i \in DOMAIN storage.history :
                 Has(storage'.history, storage.history[i]))
         /\ (saves[c].pc = "awaitSetApiKeys" =>
               \A p \in DOMAIN API_CONFIG \ {saves[c].provider} :
                 Get(storage'.apiKeys, p) = Get(storage.apiKeys, p))]_vars

\* C28: the write that ends a saveApiKey call made on its own, after a
\* successful read, leaves the keys of the other providers as they were; and
\* when two saveApiKey calls for different providers have both completed
\* after successful reads, in any interleaving, both keys are stored.
C28_SaveApiKeyChangesOnlyItsProvider ==
  /\ [][\A c \in Calls :
          (OnlyCall(c) /\ saves[c].readOk /\ saves[c].pc = "awaitSetApiKeys"
             /\ saves'[c].pc = "resolved") =>
            \A p \in DOMAIN API_CONFIG \ {saves[c].provider} :
              Get(storage'.apiKeys, p) = Get(storage.apiKeys, p)]_vars
  /\ []((\A c, d \in Calls :
            /\ saves[c].op = "saveApiKey" /\ saves[c].pc = "resolved" /\ saves[c].readOk
            /\ c # d => saves[c].provider # saves[d].provider)
         => \A c \in Calls :
              Get(storage.apiKeys, saves[c].provider) = saves[c].key)

====
